---------------------------- MODULE Spec2Model ----------------------------
(***************************************************************************)
(* A model of the example notebooks of azureml-examples: each notebook is  *)
(* a sequence of cells run top to bottom against the remote workspace.     *)
(* One behaviour of the model is one run of one notebook (the variable     *)
(* notebook says which); an action is one cell, or one step of the remote  *)
(* service completing a long-running operation the notebook started.       *)
(***************************************************************************)
EXTENDS Integers, Sequences, FiniteSets, TLC

(***************************************************************************)
(* Names used by the notebooks                                             *)
(***************************************************************************)
Deployments == {"blue", "green", "aci-blue"}

ClusterNames == {"cpu-cluster", "gpu-cluster"}

Notebooks ==
    {"safe_rollout", "simple_deployment", "configuration",
     "registered_components", "nyc_taxi", "pipeline_sweep", "sklearn",
     "pytorch"}

\* First cell of each notebook that the model follows.
FirstCell(nb) ==
    CASE nb = "safe_rollout" -> "create_endpoint"
      [] nb = "simple_deployment" -> "create_endpoint"
      [] nb = "configuration" -> "credential"
      [] nb = "registered_components" -> "credential"
      [] nb = "nyc_taxi" -> "credential"
      [] nb = "pipeline_sweep" -> "credential"
      [] nb = "sklearn" -> "cpu_compute_target"
      [] nb = "pytorch" -> "gpu_compute_target"

VARIABLES
    notebook,        \* the notebook being run
    pc,              \* the next cell to run ("done" at the end, "error" when
                     \* a cell raised)
    failedCell,      \* the cell whose exception stopped the run
    stdout,          \* what the cells printed, in order
    \* ---- online endpoint of the safe-rollout notebook ----
    endpoint_traffic,   \* the local object's endpoint.traffic
    endpointState,      \* provisioning state of the endpoint in the service
    trafficInEffect,    \* the traffic map the service routes by
    endpointOps,        \* endpoint operations accepted and not yet completed
    submitted,          \* every traffic map sent with the endpoint, in order
    deployments,        \* service-side record of each deployment
    \* ---- credential and workspace handle ----
    credential,         \* the notebook variable credential
    credentialRaised,   \* what the try block of the credential cell raised
    subscription_id,    \* client_config["subscription_id"] as the cell has it
    ml_client,          \* the notebook variable ml_client
    fromConfigRaised,   \* whether the first MLClient.from_config raised
    fsLog,              \* file-system operations the notebook performed
    \* ---- compute clusters of the workspace ----
    computes,           \* service-side record of each cluster
    computeRequests,    \* create/update requests sent, in order
    getOutcome,         \* per cluster: the outcome of compute.get in this run
    \* ---- components of the workspace ----
    registry,           \* the (name, version) pairs registered in the workspace
    train_model,        \* the notebook variables holding components
    score_data,
    eval_model,
    componentGetRaised, \* the (name, version) pairs whose components.get raised
    componentCreates,   \* components.create_or_update calls, in order
    \* ---- command jobs and sweeps ----
    commandRuns,        \* command line of every submitted command job
    trials,             \* the trials the sweep has run
    sweepStatus,        \* status of the sweep job in the service
    bestChild,          \* properties["best_child_run_id"] in the service
    returned_sweep_job, \* the notebook variable (status "unbound" before)
    best_run,           \* the notebook variable (0 while unbound)
    model,              \* the notebook variable model
    sweepRequests,      \* the sweeps submitted, with their limits, in order
    mainRuns,           \* executions of the training script by command jobs
    \* ---- pipeline jobs ----
    pipeline_job,       \* the notebook variable pipeline_job
    stepState,          \* service-side state of each step of the pipeline
    \* ---- invoking the endpoint ----
    result              \* the notebook variable result of the invoke cell

runVars == <<notebook, pc, failedCell, stdout>>

rolloutVars == <<endpoint_traffic, endpointState, trafficInEffect,
                 endpointOps, submitted, deployments>>

credVars == <<credential, credentialRaised>>

configVars == <<subscription_id, ml_client, fromConfigRaised, fsLog>>

computeVars == <<computes, computeRequests, getOutcome>>

componentVars == <<registry, train_model, score_data, eval_model,
                   componentGetRaised, componentCreates>>

jobVars == <<commandRuns, trials, sweepStatus, bestChild, returned_sweep_job,
             best_run, model, sweepRequests, mainRuns>>

pipelineVars == <<pipeline_job, stepState>>

invokeVars == <<result>>

vars == <<runVars, rolloutVars, credVars, configVars, computeVars,
          componentVars, jobVars, pipelineVars, invokeVars>>

\* What a step of the rollout leaves alone, and so on for each group.
notRollout == <<failedCell, stdout, credVars, configVars, computeVars,
                componentVars, jobVars, pipelineVars, invokeVars>>

(***************************************************************************)
(* Traffic maps: functions from deployment names to percentages.           *)
(***************************************************************************)
NoTraffic == << >>

Share(map, d) == IF d \in DOMAIN map THEN map[d] ELSE 0

\* Variant: the first traffic assignment naming the other deployment.
TrafficGreenOnly == [d \in {"green"} |-> 100]

\* endpoint.traffic = {"blue": 100}
TrafficBlueOnly == [d \in {"blue"} |-> 100]

\* endpoint.traffic = {"blue": 90, "green": 10}
TrafficCanary == [d \in {"blue", "green"} |-> IF d = "blue" THEN 90 ELSE 10]

\* Variant: the cut-over cell with the two shares exchanged.
TrafficCutoverSwapped ==
    [d \in {"blue", "green"} |-> IF d = "blue" THEN 100 ELSE 0]

\* endpoint.traffic = {"blue": 0, "green": 100}
TrafficCutover == [d \in {"blue", "green"} |-> IF d = "blue" THEN 0 ELSE 100]

\* instance_count=1 of both deployment definitions
InitialInstanceCount == 1

\* blue_deployment.instance_count = 2
ScaledInstanceCount == 2

AbsentDeployment == [state |-> "Absent", instance_count |-> 0, desired |-> 0]

(***************************************************************************)
(* SDK calls of the safe-rollout notebook.  begin_create_or_update returns *)
(* once the service has accepted the request; the operation itself         *)
(* completes later (the Service* actions).                                 *)
(***************************************************************************)

\* ml_client.begin_create_or_update(endpoint): send the local endpoint
\* object, traffic map included, and do not wait.
BeginCreateOrUpdateEndpoint(traffic) ==
    /\ endpointOps' = Append(endpointOps, [op |-> "put", traffic |-> traffic])
    /\ submitted' = Append(submitted, traffic)
    /\ endpointState' = IF endpointState = "Absent" THEN "Creating"
                        ELSE endpointState

\* ml_client.begin_create_or_update(<deployment>): request creation and do
\* not wait.
BeginCreateDeployment(d, count) ==
    deployments' = [deployments EXCEPT ![d] =
        [state |-> "Creating", instance_count |-> 0, desired |-> count]]

\* cell 3.2 (safe rollout), cell 5.2 (simple deployment):
\* ml_client.begin_create_or_update(endpoint)
CreateEndpoint ==
    /\ notebook \in {"safe_rollout", "simple_deployment"}
    /\ pc = "create_endpoint"
    /\ BeginCreateOrUpdateEndpoint(endpoint_traffic)
    /\ pc' = "create_blue"
    /\ UNCHANGED <<notRollout, notebook, endpoint_traffic, trafficInEffect, deployments>>

\* cell 4.2 (safe rollout), cell 5.4 (simple deployment):
\* ml_client.begin_create_or_update(blue_deployment)
CreateBlue ==
    /\ notebook \in {"safe_rollout", "simple_deployment"}
    /\ pc = "create_blue"
    /\ BeginCreateDeployment("blue", InitialInstanceCount)
    /\ pc' = "blue_100"
    /\ UNCHANGED <<notRollout, notebook, endpoint_traffic, endpointState, trafficInEffect,
                   endpointOps, submitted>>

\* endpoint.traffic = <map>; ml_client.begin_create_or_update(endpoint)
SetTraffic(map) ==
    /\ endpoint_traffic' = map
    /\ BeginCreateOrUpdateEndpoint(map)
    /\ UNCHANGED <<notRollout, notebook, trafficInEffect, deployments>>

\* "blue deployment takes 100 traffic"
BlueTakes100 ==
    /\ notebook \in {"safe_rollout", "simple_deployment"}
    /\ pc = "blue_100"
    /\ SetTraffic(TrafficBlueOnly)
    /\ pc' = IF notebook = "safe_rollout" THEN "scale_blue"
             ELSE "get_endpoint_details"

\* simple deployment, cell 7.1: endpoint = ml_client.online_endpoints.get(
\* name=...); print(endpoint.traffic); print(endpoint.scoring_uri)
GetEndpointDetails ==
    /\ notebook = "simple_deployment" /\ pc = "get_endpoint_details"
    /\ endpoint_traffic' = trafficInEffect
    /\ stdout' = stdout \o <<"endpoint.traffic", "endpoint.scoring_uri">>
    /\ pc' = "get_logs"
    /\ UNCHANGED <<notebook, failedCell, endpointState, trafficInEffect,
                   endpointOps, submitted, deployments, credVars, configVars,
                   computeVars, componentVars, jobVars, pipelineVars,
                   invokeVars>>

\* simple deployment, cell 7.2: ml_client.online_deployments.get_logs(
\* name="blue", endpoint_name=..., lines=50)
GetLogs ==
    /\ notebook = "simple_deployment" /\ pc = "get_logs"
    /\ pc' = "delete_endpoint"
    /\ UNCHANGED <<notRollout, notebook, rolloutVars>>

\* cell 6: get blue, set instance_count = 2, begin_create_or_update
ScaleBlue ==
    /\ notebook = "safe_rollout" /\ pc = "scale_blue"
    /\ deployments' = [deployments EXCEPT !["blue"].desired = ScaledInstanceCount]
    /\ pc' = "get_endpoint"
    /\ UNCHANGED <<notRollout, notebook, endpoint_traffic, endpointState, trafficInEffect,
                   endpointOps, submitted>>

\* cell 7: endpoint = ml_client.online_endpoints.get(name=...);
\* print(endpoint.traffic); print(endpoint.scoring_uri)
GetEndpoint ==
    /\ notebook = "safe_rollout" /\ pc = "get_endpoint"
    /\ endpoint_traffic' = trafficInEffect
    /\ stdout' = stdout \o <<"endpoint.traffic", "endpoint.scoring_uri">>
    /\ pc' = "create_green"
    /\ UNCHANGED <<notebook, failedCell, endpointState, trafficInEffect,
                   endpointOps, submitted, deployments, credVars, configVars,
                   computeVars, componentVars, jobVars, pipelineVars,
                   invokeVars>>

\* cell 8: ml_client.begin_create_or_update(green_deployment)
CreateGreen ==
    /\ notebook = "safe_rollout" /\ pc = "create_green"
    /\ BeginCreateDeployment("green", InitialInstanceCount)
    /\ pc' = "traffic_90_10"
    /\ UNCHANGED <<notRollout, notebook, endpoint_traffic, endpointState, trafficInEffect,
                   endpointOps, submitted>>

\* cell 9.1
TrafficNinetyTen ==
    /\ notebook = "safe_rollout" /\ pc = "traffic_90_10"
    /\ SetTraffic(TrafficCanary)
    /\ pc' = "traffic_0_100"

\* cell 9.2
TrafficZeroHundred ==
    /\ notebook = "safe_rollout" /\ pc = "traffic_0_100"
    /\ SetTraffic(TrafficCutover)
    /\ pc' = "delete_blue"

\* cell 10: ml_client.online_deployments.delete(name="blue", ...)
DeleteBlue ==
    /\ notebook = "safe_rollout" /\ pc = "delete_blue"
    /\ deployments' = [deployments EXCEPT !["blue"].state = "Deleting"]
    /\ pc' = "delete_endpoint"
    /\ UNCHANGED <<notRollout, notebook, endpoint_traffic, endpointState, trafficInEffect,
                   endpointOps, submitted>>

\* cell 11 (safe rollout), cell 8 (simple deployment), cell delete_endpoint
\* (PyTorch): ml_client.online_endpoints.begin_delete(name=...)
DeleteEndpoint ==
    /\ notebook \in {"safe_rollout", "simple_deployment", "pytorch"}
    /\ pc = "delete_endpoint"
    /\ endpointOps' = Append(endpointOps, [op |-> "delete", traffic |-> NoTraffic])
    /\ pc' = "done"
    /\ UNCHANGED <<notRollout, notebook, endpoint_traffic, endpointState, trafficInEffect,
                   submitted, deployments>>

(***************************************************************************)
(* The remote service: every accepted operation completes at some later    *)
(* moment.  Operations on the endpoint complete in the order they were     *)
(* accepted; operations on different resources are independent.            *)
(***************************************************************************)
ServiceApplyEndpoint ==
    /\ endpointOps # << >>
    /\ Head(endpointOps).op = "put"
    /\ endpointState' = "Succeeded"
    /\ trafficInEffect' = Head(endpointOps).traffic
    /\ endpointOps' = Tail(endpointOps)
    /\ UNCHANGED <<notRollout, notebook, pc, endpoint_traffic, submitted, deployments>>

ServiceDeleteEndpoint ==
    /\ endpointOps # << >>
    /\ Head(endpointOps).op = "delete"
    /\ endpointState' = "Deleted"
    /\ trafficInEffect' = NoTraffic
    /\ endpointOps' = Tail(endpointOps)
    /\ UNCHANGED <<notRollout, notebook, pc, endpoint_traffic, submitted, deployments>>

ServiceProvision(d) ==
    /\ deployments[d].state = "Creating"
    /\ deployments' = [deployments EXCEPT ![d].state = "Succeeded",
                                          ![d].instance_count = InitialInstanceCount]
    /\ UNCHANGED <<notRollout, notebook, pc, endpoint_traffic, endpointState,
                   trafficInEffect, endpointOps, submitted>>

ServiceScale(d) ==
    /\ deployments[d].state = "Succeeded"
    /\ deployments[d].desired # deployments[d].instance_count
    /\ deployments' = [deployments EXCEPT ![d].instance_count = deployments[d].desired]
    /\ UNCHANGED <<notRollout, notebook, pc, endpoint_traffic, endpointState,
                   trafficInEffect, endpointOps, submitted>>

ServiceDeleteDeployment(d) ==
    /\ deployments[d].state = "Deleting"
    /\ deployments' = [deployments EXCEPT ![d].state = "Deleted"]
    /\ UNCHANGED <<notRollout, notebook, pc, endpoint_traffic, endpointState,
                   trafficInEffect, endpointOps, submitted>>

RolloutInit ==
    /\ endpoint_traffic = NoTraffic
    /\ endpointState = "Absent"
    /\ trafficInEffect = NoTraffic
    /\ endpointOps = << >>
    /\ submitted = << >>
    /\ deployments = [d \in Deployments |-> AbsentDeployment]

(***************************************************************************)
(* Exceptions.  The calls below raise the SDK's exception classes, all of  *)
(* them subclasses of Exception; "none" stands for a call that returns.    *)
(***************************************************************************)
AzureIdentityErrors == {"CredentialUnavailableError", "ClientAuthenticationError"}

AzureCoreErrors == {"ResourceNotFoundError", "HttpResponseError"}

\* Variant: a handler that names one exception class only.
ExceptCredentialUnavailable(e) == e = "CredentialUnavailableError"

\* "except Exception": the handler takes every subclass of Exception.
ExceptException(e) == e \in AzureIdentityErrors \cup AzureCoreErrors


\* The cell that follows the credential cell.
AfterCredential(nb) ==
    CASE nb = "configuration" -> "from_config"
      [] nb = "registered_components" -> "load_components"
      [] nb = "nyc_taxi" -> "get_workspace"
      [] nb = "pipeline_sweep" -> "get_workspace"

\* try: credential = DefaultAzureCredential(); credential.get_token(...)
\* except Exception as ex: credential = InteractiveBrowserCredential()
CredentialCell ==
    /\ notebook \in {"configuration", "registered_components", "nyc_taxi",
                    "pipeline_sweep"}
    /\ pc = "credential"
    /\ \E ctor \in AzureIdentityErrors \cup {"none"},
          token \in AzureIdentityErrors \cup {"none"} :
          LET raised == IF ctor # "none" THEN ctor ELSE token IN
          /\ credentialRaised' = raised
          /\ IF raised = "none"
                THEN /\ credential' = "DefaultAzureCredential"
                     /\ pc' = AfterCredential(notebook)
                ELSE IF ExceptException(raised)
                THEN /\ credential' = "InteractiveBrowserCredential"
                     /\ pc' = AfterCredential(notebook)
                ELSE /\ credential' = IF ctor = "none"
                                      THEN "DefaultAzureCredential"
                                      ELSE credential
                     /\ pc' = "error"
          /\ failedCell' = IF pc' = "error" THEN "credential" ELSE failedCell
    /\ UNCHANGED <<notebook, stdout, rolloutVars, configVars, computeVars,
                   componentVars, jobVars, pipelineVars, invokeVars>>

(***************************************************************************)
(* configuration.ipynb, cell 3: connect to the workspace.  Strings that    *)
(* the code inspects are sequences of characters.                          *)
(***************************************************************************)
StartsWith(str, prefix) ==
    /\ Len(str) >= Len(prefix)
    /\ SubSeq(str, 1, Len(prefix)) = prefix

\* Variant: a test for the committed placeholder text only.
IsPlaceholderExact(str) == str = <<"<", "S", "U", "B", ">">>

\* client_config["subscription_id"].startswith("<")
IsPlaceholder(str) == StartsWith(str, <<"<">>)

\* config_path = "../.azureml/config.json"
ConfigPath == "../.azureml/config.json"

\* os.path.dirname(config_path)
ConfigDir == "../.azureml"

\* Values of subscription_id the cell is run with: the text as committed,
\* another placeholder, and three edited values.
SubscriptionIds ==
    { <<"<", "S", "U", "B", ">">>, <<"<">>, <<"1", "2", "3">>, <<"a", "<">>, << >> }

FromConfigCell ==
    /\ notebook = "configuration" /\ pc = "from_config"
    /\ \E first \in AzureCoreErrors \cup {"none"},
          second \in AzureCoreErrors \cup {"none"} :
          /\ fromConfigRaised' = (first # "none")
          /\ IF first = "none"
                THEN \* ml_client = MLClient.from_config(credential=credential)
                     /\ ml_client' = "MLClient"
                     /\ fsLog' = fsLog
                     /\ stdout' = Append(stdout, "ml_client")
                     /\ pc' = "create_cpu_compute"
                     /\ failedCell' = failedCell
                ELSE IF ~ExceptException(first)
                THEN /\ UNCHANGED <<ml_client, fsLog, stdout>>
                     /\ pc' = "error"
                     /\ failedCell' = "from_config"
                ELSE IF IsPlaceholder(subscription_id)
                THEN \* print("please update ..."); raise ex
                     /\ UNCHANGED <<ml_client, fsLog>>
                     /\ stdout' = Append(stdout, "please update")
                     /\ pc' = "error"
                     /\ failedCell' = "from_config"
                ELSE \* write and reload from config file
                     /\ fsLog' = fsLog \o
                           << [op |-> "makedirs", path |-> ConfigDir],
                              [op |-> "write", path |-> ConfigPath] >>
                     /\ IF second = "none"
                           THEN /\ ml_client' = "MLClient"
                                /\ stdout' = Append(stdout, "ml_client")
                                /\ pc' = "create_cpu_compute"
                                /\ failedCell' = failedCell
                           ELSE /\ UNCHANGED <<ml_client, stdout>>
                                /\ pc' = "error"
                                /\ failedCell' = "from_config"
    /\ UNCHANGED <<notebook, subscription_id, rolloutVars, credVars,
                   computeVars, componentVars, jobVars, pipelineVars,
                   invokeVars>>

(***************************************************************************)
(* Get-or-create cells for compute clusters.                               *)
(***************************************************************************)
\* max_instances=4 of every AmlCompute the notebooks build
NotebookMaxInstances == 4

\* AmlCompute(name="cpu-cluster", size="STANDARD_D2_V2", ..., max_instances=4)
ConfigurationCpuCluster ==
    [name |-> "cpu-cluster", size |-> "STANDARD_D2_V2",
     max_instances |-> NotebookMaxInstances]

\* Variant: the gpu cell building its cluster under the cpu cell's name.
ConfigurationGpuClusterMisnamed ==
    [name |-> "cpu-cluster", size |-> "STANDARD_NC6",
     max_instances |-> NotebookMaxInstances]

\* AmlCompute(name="gpu-cluster", size="STANDARD_NC6", ..., max_instances=4)
ConfigurationGpuCluster ==
    [name |-> "gpu-cluster", size |-> "STANDARD_NC6",
     max_instances |-> NotebookMaxInstances]

AbsentCompute == [state |-> "Absent", size |-> "", max_instances |-> 0]

\* Largest max_instances of a cluster that exists before the run.
MaxExistingInstances == 2

\* A cluster somebody created before the notebook runs.
ExistingComputes ==
    { [state |-> "Succeeded", size |-> "STANDARD_DS11_V2", max_instances |-> k] :
        k \in 1..MaxExistingInstances }

\* compute.get(name) returns when the cluster exists and the call goes
\* through; it raises when the cluster is absent or the call fails.
ComputeGetOutcomes(name) ==
    IF computes[name].state = "Absent"
    THEN {"ResourceNotFoundError"}
    ELSE {"none", "HttpResponseError"}

\* compute.begin_create_or_update(compute): the request is accepted and the
\* call returns; provisioning goes on in the service.
BeginCreateOrUpdateCompute(compute) ==
    /\ computeRequests' = Append(computeRequests, compute)
    /\ computes' = [computes EXCEPT ![compute.name] =
          [state |-> IF computes[compute.name].state = "Absent"
                     THEN "Creating" ELSE "Updating",
           size |-> compute.size,
           max_instances |-> compute.max_instances]]

\* Variant: the create/update request sent whatever compute.get did.
GetOrCreateComputeAlways(name, definition, raised) ==
    /\ getOutcome' = [getOutcome EXCEPT ![name] =
                         IF raised = "none" THEN "ok" ELSE "raised"]
    /\ stdout' = Append(stdout, "Creating a new compute target...")
    /\ BeginCreateOrUpdateCompute(definition)

\* try: ml_client.compute.get(name)
\* except Exception: ... ml_client.compute.begin_create_or_update(compute)
GetOrCreateCompute(name, definition, raised) ==
    /\ getOutcome' = [getOutcome EXCEPT ![name] =
                         IF raised = "none" THEN "ok" ELSE "raised"]
    /\ IF raised = "none"
          THEN UNCHANGED <<computes, computeRequests, stdout>>
          ELSE /\ stdout' = Append(stdout, "Creating a new compute target...")
               /\ BeginCreateOrUpdateCompute(definition)

notCompute == <<notebook, failedCell, rolloutVars, credVars, configVars,
                componentVars, jobVars, pipelineVars, invokeVars>>

\* configuration.ipynb, cell create-cpu-compute
CreateCpuCompute ==
    /\ notebook = "configuration" /\ pc = "create_cpu_compute"
    /\ \E raised \in ComputeGetOutcomes("cpu-cluster") :
          GetOrCreateCompute("cpu-cluster", ConfigurationCpuCluster, raised)
    /\ pc' = "create_gpu_compute"
    /\ UNCHANGED notCompute

\* configuration.ipynb, cell create-gpu-compute
CreateGpuCompute ==
    /\ notebook = "configuration" /\ pc = "create_gpu_compute"
    /\ \E raised \in ComputeGetOutcomes("gpu-cluster") :
          GetOrCreateCompute("gpu-cluster", ConfigurationGpuCluster, raised)
    /\ pc' = "done"
    /\ UNCHANGED notCompute

\* AmlCompute(name=cpu_compute_target, size="STANDARD_DS3_V2", ...,
\* max_instances=4) of the scikit-learn notebook
SklearnCpuCluster ==
    [name |-> "cpu-cluster", size |-> "STANDARD_DS3_V2",
     max_instances |-> NotebookMaxInstances]

\* AmlCompute(name="gpu-cluster", size="STANDARD_NC6", ..., max_instances=4)
\* of the PyTorch notebook
PytorchGpuCluster ==
    [name |-> "gpu-cluster", size |-> "STANDARD_NC6",
     max_instances |-> NotebookMaxInstances]

\* scikit-learn notebook, cell cpu_compute_target
CpuComputeTarget ==
    /\ notebook = "sklearn" /\ pc = "cpu_compute_target"
    /\ \E raised \in ComputeGetOutcomes("cpu-cluster") :
          GetOrCreateCompute("cpu-cluster", SklearnCpuCluster, raised)
    /\ pc' = "create_job"
    /\ UNCHANGED notCompute

\* PyTorch notebook, cell gpu_compute_target
GpuComputeTarget ==
    /\ notebook = "pytorch" /\ pc = "gpu_compute_target"
    /\ \E raised \in ComputeGetOutcomes("gpu-cluster") :
          GetOrCreateCompute("gpu-cluster", PytorchGpuCluster, raised)
    /\ pc' = "create_job"
    /\ UNCHANGED notCompute

(***************************************************************************)
(* pipeline_with_registered_components: get-or-create cells for            *)
(* components.                                                             *)
(***************************************************************************)
\* Versions a component YAML file may declare.
YamlVersions == {"1", "2"}

UnboundComponent == [name |-> "", version |-> "", registered |-> FALSE]

LocalComponent(name, version) ==
    [name |-> name, version |-> version, registered |-> FALSE]

\* @command_component(display_name="Eval Model", version="0.0.9")
\* def eval_model(...): the component is named after the function.
EvalModelDefinition == LocalComponent("eval_model", "0.0.9")

\* Variant: a lookup left at the previous version of the component.
EvalModelLookupStale == [name |-> "eval_model", version |-> "0.0.8"]

\* ml_client.components.get(name="eval_model", version="0.0.9")
EvalModelLookup == [name |-> "eval_model", version |-> "0.0.9"]

\* Every component the workspace may hold before the run.
ComponentUniverse ==
    { [name |-> n, version |-> v] : n \in {"train_model", "score_data"},
                                    v \in YamlVersions }
    \cup { [name |-> "eval_model", version |-> v] : v \in {"0.0.8", "0.0.9"} }

\* components.get(name, version) returns the registered component, or raises
\* when there is none or the call fails.
ComponentGetOutcomes(key) ==
    IF key \in registry THEN {"none", "HttpResponseError"}
    ELSE {"ResourceNotFoundError"}

\* The value bound by: try: v = components.get(name=.., version=..)
\* except: v = components.create_or_update(local)
GetOrCreateComponentValue(key, local, raised) ==
    IF raised = "none"
    THEN [name |-> key.name, version |-> key.version, registered |-> TRUE]
    ELSE [name |-> local.name, version |-> local.version, registered |-> TRUE]

\* The (name, version) pairs create_or_update registers for one try/except.
GetOrCreateComponentWrites(local, raised) ==
    IF raised = "none" THEN << >>
    ELSE << [name |-> local.name, version |-> local.version] >>

notComponent == <<notebook, failedCell, stdout, rolloutVars, credVars,
                  configVars, computeVars, jobVars, pipelineVars, invokeVars>>

SeqRange(seq) == { seq[i] : i \in 1..Len(seq) }

\* cell 2.1: train_model = load_component(...); score_data = load_component(...)
LoadComponents ==
    /\ notebook = "registered_components" /\ pc = "load_components"
    /\ \E tv \in YamlVersions, sv \in YamlVersions :
          /\ train_model' = LocalComponent("train_model", tv)
          /\ score_data' = LocalComponent("score_data", sv)
    /\ pc' = "register_components"
    /\ UNCHANGED <<registry, eval_model, componentGetRaised, componentCreates,
                   notComponent>>

\* cell 2.2: get or create train_model, then score_data
RegisterComponents ==
    /\ notebook = "registered_components" /\ pc = "register_components"
    /\ LET tkey == [name |-> train_model.name, version |-> train_model.version]
           skey == [name |-> score_data.name, version |-> score_data.version]
       IN \E tr \in ComponentGetOutcomes(tkey), sr \in ComponentGetOutcomes(skey) :
          LET writes == GetOrCreateComponentWrites(train_model, tr)
                        \o GetOrCreateComponentWrites(score_data, sr)
          IN /\ train_model' = GetOrCreateComponentValue(tkey, train_model, tr)
             /\ score_data' = GetOrCreateComponentValue(skey, score_data, sr)
             /\ componentCreates' = componentCreates \o writes
             /\ registry' = registry \cup SeqRange(writes)
             /\ componentGetRaised' = componentGetRaised
                    \cup (IF tr = "none" THEN {} ELSE {tkey})
                    \cup (IF sr = "none" THEN {} ELSE {skey})
    /\ pc' = "import_eval_model"
    /\ UNCHANGED <<eval_model, notComponent>>

\* from eval_src.component import eval_model
ImportEvalModel ==
    /\ notebook = "registered_components" /\ pc = "import_eval_model"
    /\ eval_model' = EvalModelDefinition
    /\ pc' = "create_eval_model"
    /\ UNCHANGED <<registry, train_model, score_data, componentGetRaised,
                   componentCreates, notComponent>>

\* cell "create the component if not exists"
CreateEvalModel ==
    /\ notebook = "registered_components" /\ pc = "create_eval_model"
    /\ \E er \in ComponentGetOutcomes(EvalModelLookup) :
          LET writes == GetOrCreateComponentWrites(eval_model, er)
          IN /\ eval_model' = GetOrCreateComponentValue(EvalModelLookup, eval_model, er)
             /\ componentCreates' = componentCreates \o writes
             /\ registry' = registry \cup SeqRange(writes)
             /\ componentGetRaised' = componentGetRaised
                    \cup (IF er = "none" THEN {} ELSE {EvalModelLookup})
    /\ pc' = "done"
    /\ UNCHANGED <<train_model, score_data, notComponent>>

(***************************************************************************)
(* Command jobs and sweeps of the scikit-learn and PyTorch notebooks.      *)
(* A command is a sequence of tokens: literal text, or a reference         *)
(* ${{inputs.<name>}} to an input of the job.                              *)
(***************************************************************************)
Lit(text) == [kind |-> "lit", text |-> text]

InputRef(name) == [kind |-> "input", text |-> name]

\* job = command(inputs=dict(kernel="linear", penalty=1.0), ...,
\*   command="python train_iris.py --kernel ${{inputs.kernel}}
\*            --penalty ${{inputs.penalty}}")
SklearnJob ==
    [inputs |-> [n \in {"kernel", "penalty"} |->
                    IF n = "kernel" THEN "linear" ELSE "1.0"],
     command |-> << Lit("python"), Lit("train_iris.py"),
                    Lit("--kernel"), InputRef("kernel"),
                    Lit("--penalty"), InputRef("penalty") >>]

\* job = command(inputs=dict(num_epochs=30, learning_rate=0.001,
\*   momentum=0.9, output_dir="./outputs"), ...,
\*   command="python pytorch_train.py --num_epochs ${{inputs.num_epochs}}
\*            --output_dir ${{inputs.output_dir}}")
PytorchJob ==
    [inputs |-> [n \in {"num_epochs", "learning_rate", "momentum", "output_dir"} |->
                    CASE n = "num_epochs" -> "30"
                      [] n = "learning_rate" -> "0.001"
                      [] n = "momentum" -> "0.9"
                      [] n = "output_dir" -> "./outputs"],
     command |-> << Lit("python"), Lit("pytorch_train.py"),
                    Lit("--num_epochs"), InputRef("num_epochs"),
                    Lit("--output_dir"), InputRef("output_dir") >>]

Job(nb) == IF nb = "sklearn" THEN SklearnJob ELSE PytorchJob

\* job_for_sweep = job(kernel=Choice(values=["linear", "rbf", "poly",
\*   "sigmoid"]), penalty=Choice(values=[0.5, 1, 1.5]))
SklearnSearchSpace ==
    [n \in {"kernel", "penalty"} |->
        IF n = "kernel" THEN {"linear", "rbf", "poly", "sigmoid"}
        ELSE {"0.5", "1", "1.5"}]

\* job_for_sweep = job(learning_rate=Uniform(min_value=0.0005,
\*   max_value=0.005), momentum=Uniform(min_value=0.9, max_value=0.99));
\* the two ends of each interval stand for the values it can yield.
PytorchSearchSpace ==
    [n \in {"learning_rate", "momentum"} |->
        IF n = "learning_rate" THEN {"0.0005", "0.005"} ELSE {"0.9", "0.99"}]

SearchSpace(nb) == IF nb = "sklearn" THEN SklearnSearchSpace ELSE PytorchSearchSpace

\* max_total_trials=12
SklearnMaxTotalTrials == 12

\* max_total_trials=8
PytorchMaxTotalTrials == 8

MaxTotalTrials(nb) ==
    IF nb = "sklearn" THEN SklearnMaxTotalTrials ELSE PytorchMaxTotalTrials

\* sweep_job = job_for_sweep.sweep(compute="cpu-cluster",
\*   sampling_algorithm="random", primary_metric="Accuracy", goal="Maximize",
\*   max_total_trials=12, max_concurrent_trials=4)
SklearnSweepJob ==
    [compute |-> "cpu-cluster", primary_metric |-> "Accuracy",
     max_total_trials |-> SklearnMaxTotalTrials, max_concurrent_trials |-> 4]

\* sweep_job = job_for_sweep.sweep(compute="gpu-cluster",
\*   sampling_algorithm="random", primary_metric="best_val_acc",
\*   goal="Maximize", max_total_trials=8, max_concurrent_trials=4, ...)
PytorchSweepJob ==
    [compute |-> "gpu-cluster", primary_metric |-> "best_val_acc",
     max_total_trials |-> PytorchMaxTotalTrials, max_concurrent_trials |-> 4]

SweepJob(nb) == IF nb = "sklearn" THEN SklearnSweepJob ELSE PytorchSweepJob

\* Number of trials of one sweep that the model follows.
MaxTrialsModelled == 2

\* The command line a run gets: every ${{inputs.x}} replaced by the value
\* of x.
Render(command, inputs) ==
    [i \in 1..Len(command) |->
        IF command[i].kind = "input" THEN inputs[command[i].text]
        ELSE command[i].text]

\* The inputs of one trial: the job's inputs with the sampled values in
\* place of the search-space expressions.
TrialInputs(job, sampled) ==
    [n \in DOMAIN job.inputs |->
        IF n \in DOMAIN sampled THEN sampled[n] ELSE job.inputs[n]]

(***************************************************************************)
(* train_iris.py: the statements of main, in order.  A statement that logs *)
(* carries the kind and the name of what it logs.                          *)
(***************************************************************************)
Stmt(call, kind, name) == [call |-> call, kind |-> kind, name |-> name]

\* Variant: the accuracy logged under a lower-case name.
LogAccuracyLowercase == Stmt("mlflow.log_metric", "metric", "accuracy")

\* mlflow.log_metric('Accuracy', float(accuracy))
LogAccuracy == Stmt("mlflow.log_metric", "metric", "Accuracy")

\* def main()
TrainIrisMain ==
    << Stmt("mlflow.start_run", "", ""),
       Stmt("mlflow.sklearn.autolog", "", ""),
       Stmt("parser.parse_args", "", ""),
       Stmt("mlflow.log_param", "param", "Kernel type"),
       Stmt("mlflow.log_metric", "metric", "Penalty"),
       Stmt("datasets.load_iris", "", ""),
       Stmt("svm_model_linear.fit", "", ""),
       Stmt("svm_model_linear.score", "", ""),
       LogAccuracy,
       Stmt("mlflow.sklearn.log_model", "", ""),
       Stmt("mlflow.sklearn.save_model", "", ""),
       Stmt("mlflow.end_run", "", "") >>

\* The script a notebook's job runs; pytorch_train.py is not among the
\* sources and none of its statements is modelled.
Script(nb) == IF nb = "sklearn" THEN TrainIrisMain ELSE << >>

\* One execution of a script in which statement number raises is the one
\* that raises (0: none does): what it logged, and whether it ran to its
\* last statement.
RunMain(script, raises) ==
    LET executed == IF raises = 0 THEN Len(script) ELSE raises - 1 IN
    [metrics |-> { script[i].name : i \in { k \in 1..executed :
                                              script[k].kind = "metric" } },
     params |-> { script[i].name : i \in { k \in 1..executed :
                                             script[k].kind = "param" } },
     ended |-> raises = 0]

\* the script stores the model as "outputs" /
\* "sklearn-iris-flower-classify-model"
ModelFolder(nb) ==
    IF nb = "sklearn" THEN "sklearn-iris-flower-classify-model" ELSE "outputs"

UnboundModel == [bound |-> FALSE, job |-> 0, folder |-> ""]

TerminalStatuses == {"Completed", "Failed", "Canceled"}

\* "Sweep job status: {}. Please wait until it completes".format(status)
WaitMessage(status) ==
    CASE status = "Failed" -> "Sweep job status: Failed. Please wait until it completes"
      [] status = "Canceled" -> "Sweep job status: Canceled. Please wait until it completes"
      [] OTHER -> "Sweep job status: Completed. Please wait until it completes"

\* Variant: a test that takes every status but "Failed" for completion.
SweepNotFailed(status) == status # "Failed"

\* returned_sweep_job.status == "Completed"
SweepCompleted(status) == status = "Completed"

notJob == <<notebook, failedCell, rolloutVars, credVars, configVars,
            componentVars, pipelineVars, invokeVars>>

\* cell create_job: ml_client.jobs.create_or_update(job)
CreateJob ==
    /\ notebook \in {"sklearn", "pytorch"} /\ pc = "create_job"
    /\ commandRuns' = Append(commandRuns,
                             Render(Job(notebook).command, Job(notebook).inputs))
    /\ pc' = "create_sweep_job"
    /\ UNCHANGED <<trials, sweepStatus, bestChild, returned_sweep_job, best_run,
                   model, sweepRequests, mainRuns, stdout, computeVars,
                   notJob>>

\* The service runs a submitted command job: the job's script with the
\* rendered command line.
ServiceRunJob ==
    /\ Len(mainRuns) < Len(commandRuns)
    /\ \E raises \in 0..Len(Script(notebook)) :
          mainRuns' = Append(mainRuns,
                [argv |-> commandRuns[Len(mainRuns) + 1],
                 run |-> RunMain(Script(notebook), raises)])
    /\ UNCHANGED <<commandRuns, trials, sweepStatus, bestChild,
                   returned_sweep_job, best_run, model, sweepRequests, pc,
                   stdout, computeVars, notJob>>

\* cell create_sweep_job, first statement:
\* returned_sweep_job = ml_client.create_or_update(sweep_job)
CreateSweepJob ==
    /\ notebook \in {"sklearn", "pytorch"} /\ pc = "create_sweep_job"
    /\ sweepStatus' = "Running"
    /\ returned_sweep_job' = [status |-> "Running", best_child_run_id |-> 0]
    /\ sweepRequests' = Append(sweepRequests, SweepJob(notebook))
    /\ pc' = "stream"
    /\ UNCHANGED <<commandRuns, trials, bestChild, best_run, model, mainRuns,
                   stdout, computeVars, notJob>>

\* The service samples the search space and runs one trial.
ServiceRunTrial ==
    /\ sweepStatus = "Running"
    /\ Len(trials) < MaxTrialsModelled
    /\ Len(trials) < MaxTotalTrials(notebook)
    /\ \E sampled \in [DOMAIN SearchSpace(notebook) ->
                          UNION {SearchSpace(notebook)[n] :
                                   n \in DOMAIN SearchSpace(notebook)}] :
          /\ \A n \in DOMAIN sampled : sampled[n] \in SearchSpace(notebook)[n]
          /\ trials' = Append(trials,
                [sampled |-> sampled,
                 argv |-> Render(Job(notebook).command,
                                 TrialInputs(Job(notebook), sampled))])
    /\ UNCHANGED <<commandRuns, sweepStatus, bestChild, returned_sweep_job,
                   best_run, model, sweepRequests, mainRuns, pc, stdout,
                   computeVars, notJob>>

\* The sweep ends: completed with a best trial, failed, or cancelled.
ServiceFinishSweep ==
    /\ sweepStatus = "Running"
    /\ \E status \in TerminalStatuses, best \in 0..Len(trials) :
          /\ (status = "Completed") = (best > 0)
          /\ sweepStatus' = status
          /\ bestChild' = best
    /\ UNCHANGED <<commandRuns, trials, returned_sweep_job, best_run, model,
                   sweepRequests, mainRuns, pc, stdout, computeVars, notJob>>

\* cell create_sweep_job, the rest: ml_client.jobs.stream(name) returns when
\* the job is finished; then returned_sweep_job = ml_client.jobs.get(name)
StreamAndGet ==
    /\ notebook \in {"sklearn", "pytorch"} /\ pc = "stream"
    /\ sweepStatus \in TerminalStatuses
    /\ returned_sweep_job' = [status |-> sweepStatus,
                              best_child_run_id |-> bestChild]
    /\ pc' = "model"
    /\ UNCHANGED <<commandRuns, trials, sweepStatus, bestChild, best_run, model,
                   sweepRequests, mainRuns, stdout, computeVars, notJob>>

\* cell model
ModelCell ==
    /\ notebook \in {"sklearn", "pytorch"} /\ pc = "model"
    /\ IF SweepCompleted(returned_sweep_job.status)
          THEN /\ best_run' = returned_sweep_job.best_child_run_id
               /\ model' = [bound |-> TRUE, job |-> best_run',
                            folder |-> ModelFolder(notebook)]
               /\ stdout' = stdout
          ELSE /\ stdout' = Append(stdout, WaitMessage(returned_sweep_job.status))
               /\ UNCHANGED <<best_run, model>>
    /\ pc' = IF notebook = "sklearn" THEN "register_model" ELSE "endpoint"
    /\ UNCHANGED <<commandRuns, trials, sweepStatus, bestChild,
                   returned_sweep_job, sweepRequests, mainRuns, computeVars,
                   notJob>>

\* scikit-learn notebook, cell register_model:
\* registered_model = ml_client.models.create_or_update(model=model)
RegisterModel ==
    /\ notebook = "sklearn" /\ pc = "register_model"
    /\ pc' = IF model.bound THEN "done" ELSE "error"
    /\ failedCell' = IF model.bound THEN failedCell ELSE "register_model"
    /\ UNCHANGED <<notebook, stdout, rolloutVars, credVars, configVars,
                   computeVars, componentVars, jobVars, pipelineVars,
                   invokeVars>>

\* The service finishes provisioning or updating a cluster.
ServiceProvisionCompute(name) ==
    /\ computes[name].state \in {"Creating", "Updating"}
    /\ computes' = [computes EXCEPT ![name].state = "Succeeded"]
    /\ UNCHANGED <<pc, stdout, computeRequests, getOutcome, notCompute>>

(***************************************************************************)
(* PyTorch notebook: deploy the model as an online endpoint.  Here the     *)
(* cells call .result() on what begin_create_or_update returns.            *)
(***************************************************************************)
\* Variant: a cell that goes on without calling .result().
ResultNotAwaited(done) == TRUE

\* <poller>.result(): returns once the operation is done.
Result(done) == done

\* online_deployment_name = "aci-blue"
OnlineDeploymentName == "aci-blue"

notServe == <<notebook, credVars, configVars, computeVars, componentVars,
              jobVars, pipelineVars>>

\* cell endpoint, up to begin_create_or_update(endpoint)
EndpointCell ==
    /\ notebook = "pytorch" /\ pc = "endpoint"
    /\ BeginCreateOrUpdateEndpoint(NoTraffic)
    /\ pc' = "endpoint_result"
    /\ UNCHANGED <<notServe, failedCell, stdout, endpoint_traffic,
                   trafficInEffect, deployments, result>>

\* cell endpoint, from .result() on: the creation has succeeded and the
\* provisioning state is printed
EndpointResult ==
    /\ notebook = "pytorch" /\ pc = "endpoint_result"
    /\ Result(endpointOps = << >> /\ endpointState = "Succeeded")
    /\ stdout' = Append(stdout, "Endpoint provisioning state")
    /\ pc' = "get_endpoint"
    /\ UNCHANGED <<notServe, failedCell, rolloutVars, result>>

\* cell endpoint: the creation fails and .result() raises
EndpointResultRaises ==
    /\ notebook = "pytorch" /\ pc = "endpoint_result"
    /\ endpointOps # << >>
    /\ endpointOps' = Tail(endpointOps)
    /\ endpointState' = "Failed"
    /\ pc' = "error" /\ failedCell' = "endpoint"
    /\ UNCHANGED <<notServe, stdout, endpoint_traffic, trafficInEffect,
                   submitted, deployments, result>>

\* cell get_endpoint: endpoint = ml_client.online_endpoints.get(name=...)
GetEndpointPytorch ==
    /\ notebook = "pytorch" /\ pc = "get_endpoint"
    /\ endpoint_traffic' = trafficInEffect
    /\ stdout' = Append(stdout, "Endpint is retrieved")
    /\ pc' = "blue_deployment"
    /\ UNCHANGED <<notServe, failedCell, endpointState, trafficInEffect,
                   endpointOps, submitted, deployments, result>>

\* cell blue_deployment, up to begin_create_or_update(blue_deployment);
\* ManagedOnlineDeployment(..., model=model, ...) reads the variable the
\* model cell binds only for a completed sweep
BlueDeploymentCell ==
    /\ notebook = "pytorch" /\ pc = "blue_deployment"
    /\ IF model.bound
          THEN /\ BeginCreateDeployment(OnlineDeploymentName, InitialInstanceCount)
               /\ pc' = "blue_deployment_result"
               /\ failedCell' = failedCell
          ELSE /\ pc' = "error" /\ failedCell' = "blue_deployment"
               /\ deployments' = deployments
    /\ UNCHANGED <<notServe, stdout, endpoint_traffic, endpointState,
                   trafficInEffect, endpointOps, submitted, result>>

\* cell blue_deployment, .result(): the deployment has succeeded
BlueDeploymentResult ==
    /\ notebook = "pytorch" /\ pc = "blue_deployment_result"
    /\ Result(deployments[OnlineDeploymentName].state = "Succeeded")
    /\ pc' = "test_deployment"
    /\ UNCHANGED <<notServe, failedCell, stdout, rolloutVars, result>>

\* cell blue_deployment: the deployment fails and .result() raises
BlueDeploymentResultRaises ==
    /\ notebook = "pytorch" /\ pc = "blue_deployment_result"
    /\ deployments[OnlineDeploymentName].state = "Creating"
    /\ deployments' = [deployments EXCEPT ![OnlineDeploymentName].state = "Failed"]
    /\ pc' = "error" /\ failedCell' = "blue_deployment"
    /\ UNCHANGED <<notServe, stdout, endpoint_traffic, endpointState,
                   trafficInEffect, endpointOps, submitted, result>>

\* cell test_deployment: result = ml_client.online_endpoints.invoke(
\*     endpoint_name=..., request_file="request.json",
\*     deployment_name=online_deployment_name); print(result)
TestDeployment ==
    /\ notebook = "pytorch" /\ pc = "test_deployment"
    /\ \E call \in AzureCoreErrors \cup {"none"} :
          IF /\ call = "none"
             /\ endpointState = "Succeeded"
             /\ deployments[OnlineDeploymentName].state = "Succeeded"
          THEN /\ result' = "prediction"
               /\ stdout' = Append(stdout, "prediction")
               /\ pc' = "delete_endpoint"
               /\ failedCell' = failedCell
          ELSE /\ pc' = "error" /\ failedCell' = "test_deployment"
               /\ UNCHANGED <<result, stdout>>
    /\ UNCHANGED <<notServe, rolloutVars>>

(***************************************************************************)
(* Pipeline jobs: nyc_taxi_data_regression and the pipeline with a sweep   *)
(* node.  A pipeline is the sequence of its steps in the order the         *)
(* function body creates them; a step's inputs say where each one comes    *)
(* from.                                                                   *)
(***************************************************************************)
\* <input>=<step>.outputs.<output>
Bind(input, from, output) == [input |-> input, from |-> from, output |-> output]

\* an input given to the pipeline, or a value written in the call
NotAStep == "pipeline"

Step(name, component, inputs, sweeps) ==
    [name |-> name, component |-> component, inputs |-> inputs,
     sweeps |-> sweeps]

\* prepare_sample_data = prepare_data(raw_data=pipeline_job_input)
PrepareSampleData ==
    Step("prepare_sample_data", "prep.yml",
         { Bind("raw_data", NotAStep, "pipeline_job_input") }, << >>)

\* transform_sample_data = transform_data(
\*     clean_data=prepare_sample_data.outputs.prep_data)
TransformSampleData ==
    Step("transform_sample_data", "transform.yml",
         { Bind("clean_data", "prepare_sample_data", "prep_data") }, << >>)

\* train_with_sample_data = train_model(
\*     training_data=transform_sample_data.outputs.transformed_data)
TrainWithSampleData ==
    Step("train_with_sample_data", "train.yml",
         { Bind("training_data", "transform_sample_data", "transformed_data") },
         << >>)

\* predict_with_sample_data = predict_result(
\*     model_input=train_with_sample_data.outputs.model_output,
\*     test_data=train_with_sample_data.outputs.test_data)
PredictWithSampleData ==
    Step("predict_with_sample_data", "predict.yml",
         { Bind("model_input", "train_with_sample_data", "model_output"),
           Bind("test_data", "train_with_sample_data", "test_data") }, << >>)

\* Variant: a scoring step fed from the training step alone.
ScoreWithSampleDataFromTrain ==
    Step("score_with_sample_data", "score.yml",
         { Bind("predictions", "train_with_sample_data", "test_data"),
           Bind("model", "train_with_sample_data", "model_output") }, << >>)

\* score_with_sample_data = score_data(
\*     predictions=predict_with_sample_data.outputs.predictions,
\*     model=train_with_sample_data.outputs.model_output)
ScoreWithSampleData ==
    Step("score_with_sample_data", "score.yml",
         { Bind("predictions", "predict_with_sample_data", "predictions"),
           Bind("model", "train_with_sample_data", "model_output") }, << >>)

\* def nyc_taxi_data_regression(pipeline_job_input)
NycTaxiDataRegression ==
    << PrepareSampleData, TransformSampleData, TrainWithSampleData,
       PredictWithSampleData, ScoreWithSampleData >>

\* sweep_step = train_model.sweep(primary_metric="training_f1_score",
\*     goal="minimize", sampling_algorithm="random", compute="cpu-cluster")
\* sweep_step.set_limits(max_total_trials=20, max_concurrent_trials=10,
\*     timeout=7200)
SweepStepJob ==
    [compute |-> "cpu-cluster", primary_metric |-> "training_f1_score",
     max_total_trials |-> 20, max_concurrent_trials |-> 10]

\* train_model = train_component_func(data=Input(...), c_value=Uniform(...),
\*     ...); sweep_step = train_model.sweep(...)
SweepStep ==
    Step("sweep_step", "train.yml",
         { Bind("data", NotAStep, "iris.csv") }, << SweepStepJob >>)

\* score_data = score_component_func(model=sweep_step.outputs.model_output,
\*     test_data=sweep_step.outputs.test_data)
SweepScoreData ==
    Step("score_data", "predict.yml",
         { Bind("model", "sweep_step", "model_output"),
           Bind("test_data", "sweep_step", "test_data") }, << >>)

\* def pipeline_with_hyperparameter_sweep()
PipelineWithHyperparameterSweep == << SweepStep, SweepScoreData >>

\* pipeline_job = <pipeline function>(...)
PipelineOf(nb) ==
    IF nb = "nyc_taxi" THEN NycTaxiDataRegression
    ELSE PipelineWithHyperparameterSweep

StepNames(pipeline) == { pipeline[i].name : i \in 1..Len(pipeline) }

StepNamed(pipeline, name) ==
    CHOOSE st \in SeqRange(pipeline) : st.name = name

\* The steps whose outputs a step reads.
Upstream(st) == { b.from : b \in st.inputs } \ {NotAStep}

\* The sweeps a pipeline carries, in the order of its steps.
RECURSIVE SweepsOf(_)
SweepsOf(pipeline) ==
    IF pipeline = << >> THEN << >>
    ELSE Head(pipeline).sweeps \o SweepsOf(Tail(pipeline))

\* The cluster as configuration.ipynb leaves it once provisioned.
ConfiguredCpuCluster ==
    [state |-> "Succeeded", size |-> ConfigurationCpuCluster.size,
     max_instances |-> ConfigurationCpuCluster.max_instances]

notPipeline == <<notebook, rolloutVars, credVars, subscription_id,
                 fromConfigRaised, fsLog, computeVars, componentVars,
                 invokeVars>>

\* cell 1.3: ml_client = MLClient.from_config(credential=credential);
\* print(ml_client.compute.get(cluster_name))
GetWorkspace ==
    /\ notebook \in {"nyc_taxi", "pipeline_sweep"} /\ pc = "get_workspace"
    /\ \E config \in AzureCoreErrors \cup {"none"},
          get \in ComputeGetOutcomes("cpu-cluster") :
          IF config # "none"
          THEN /\ pc' = "error" /\ failedCell' = "get_workspace"
               /\ UNCHANGED <<ml_client, stdout>>
          ELSE /\ ml_client' = "MLClient"
               /\ IF get # "none"
                     THEN /\ pc' = "error" /\ failedCell' = "get_workspace"
                          /\ stdout' = stdout
                     ELSE /\ pc' = "build_pipeline" /\ failedCell' = failedCell
                          /\ stdout' = Append(stdout, "cpu-cluster")
    /\ UNCHANGED <<notPipeline, jobVars, pipelineVars>>

\* cell 2: build the pipeline and set its default compute
BuildPipeline ==
    /\ notebook \in {"nyc_taxi", "pipeline_sweep"} /\ pc = "build_pipeline"
    /\ pipeline_job' = PipelineOf(notebook)
    /\ pc' = "submit_pipeline"
    /\ UNCHANGED <<notPipeline, jobVars, stepState, ml_client, stdout,
                   failedCell>>

\* pipeline_job = ml_client.jobs.create_or_update(pipeline_job, ...)
SubmitPipeline ==
    /\ notebook \in {"nyc_taxi", "pipeline_sweep"} /\ pc = "submit_pipeline"
    /\ stepState' = [n \in StepNames(pipeline_job) |-> "NotStarted"]
    /\ sweepRequests' = sweepRequests \o SweepsOf(pipeline_job)
    /\ pc' = "stream_pipeline"
    /\ UNCHANGED <<notPipeline, commandRuns, trials, sweepStatus, bestChild,
                   returned_sweep_job, best_run, model, mainRuns, pipeline_job,
                   ml_client, stdout, failedCell>>

PipelineFailed == \E n \in DOMAIN stepState : stepState[n] = "Failed"

\* The service starts a step once every step it reads from has completed.
ServiceStartStep(n) ==
    /\ stepState[n] = "NotStarted"
    /\ ~PipelineFailed
    /\ \A u \in Upstream(StepNamed(pipeline_job, n)) : stepState[u] = "Completed"
    /\ stepState' = [stepState EXCEPT ![n] = "Running"]
    /\ UNCHANGED <<notPipeline, jobVars, pipeline_job, ml_client, stdout,
                   failedCell, pc>>

\* A running step completes or fails.
ServiceFinishStep(n) ==
    /\ stepState[n] = "Running"
    /\ \E outcome \in {"Completed", "Failed"} :
          stepState' = [stepState EXCEPT ![n] = outcome]
    /\ UNCHANGED <<notPipeline, jobVars, pipeline_job, ml_client, stdout,
                   failedCell, pc>>

PipelineFinished ==
    /\ \A n \in DOMAIN stepState : stepState[n] # "Running"
    /\ PipelineFailed \/ \A n \in DOMAIN stepState : stepState[n] = "Completed"

\* ml_client.jobs.stream(pipeline_job.name): wait until the job completes
StreamPipeline ==
    /\ notebook \in {"nyc_taxi", "pipeline_sweep"} /\ pc = "stream_pipeline"
    /\ PipelineFinished
    /\ pc' = "done"
    /\ UNCHANGED <<notPipeline, jobVars, pipelineVars, ml_client, stdout,
                   failedCell>>

(***************************************************************************)
(* Initial states: a fresh kernel, and the workspace as the notebook finds *)
(* it.                                                                     *)
(***************************************************************************)
\* The clusters a notebook gets or creates.
ClustersOf(nb) ==
    CASE nb = "configuration" -> {"cpu-cluster", "gpu-cluster"}
      [] nb = "sklearn" -> {"cpu-cluster"}
      [] nb = "pytorch" -> {"gpu-cluster"}
      [] nb = "nyc_taxi" -> {"cpu-cluster"}
      [] nb = "pipeline_sweep" -> {"cpu-cluster"}
      [] OTHER -> {}

Init ==
    /\ notebook \in Notebooks
    /\ pc = FirstCell(notebook)
    /\ failedCell = "none"
    /\ stdout = << >>
    /\ RolloutInit
    /\ credential = "unbound"
    /\ credentialRaised = "none"
    /\ subscription_id \in IF notebook = "configuration"
                           THEN SubscriptionIds
                           ELSE { <<"<", "S", "U", "B", ">">> }
    /\ ml_client = "unbound"
    /\ fromConfigRaised = FALSE
    /\ fsLog = << >>
    /\ computes \in [ClusterNames -> ExistingComputes
                        \cup {AbsentCompute, ConfiguredCpuCluster}]
    /\ \A n \in ClusterNames \ ClustersOf(notebook) : computes[n] = AbsentCompute
    /\ \A n \in ClustersOf(notebook) :
          IF notebook \in {"nyc_taxi", "pipeline_sweep"}
          THEN computes[n] \in {AbsentCompute, ConfiguredCpuCluster}
          ELSE computes[n] # ConfiguredCpuCluster
    /\ computeRequests = << >>
    /\ getOutcome = [n \in ClusterNames |-> "none"]
    /\ registry \in IF notebook = "registered_components"
                     THEN SUBSET ComponentUniverse
                     ELSE {{}}
    /\ train_model = UnboundComponent
    /\ score_data = UnboundComponent
    /\ eval_model = UnboundComponent
    /\ componentGetRaised = {}
    /\ componentCreates = << >>
    /\ commandRuns = << >>
    /\ trials = << >>
    /\ sweepStatus = "NotStarted"
    /\ bestChild = 0
    /\ returned_sweep_job = [status |-> "unbound", best_child_run_id |-> 0]
    /\ best_run = 0
    /\ model = UnboundModel
    /\ sweepRequests = << >>
    /\ mainRuns = << >>
    /\ pipeline_job = << >>
    /\ stepState = << >>
    /\ result = "unbound"

Next ==
    \/ CreateEndpoint
    \/ CreateBlue
    \/ BlueTakes100
    \/ GetEndpointDetails
    \/ GetLogs
    \/ ScaleBlue
    \/ GetEndpoint
    \/ CreateGreen
    \/ TrafficNinetyTen
    \/ TrafficZeroHundred
    \/ DeleteBlue
    \/ DeleteEndpoint
    \/ ServiceApplyEndpoint
    \/ ServiceDeleteEndpoint
    \/ \E d \in Deployments : ServiceProvision(d)
    \/ \E d \in Deployments : ServiceScale(d)
    \/ \E d \in Deployments : ServiceDeleteDeployment(d)
    \/ CredentialCell
    \/ FromConfigCell
    \/ CreateCpuCompute
    \/ CreateGpuCompute
    \/ \E n \in ClusterNames : ServiceProvisionCompute(n)
    \/ CpuComputeTarget
    \/ GpuComputeTarget
    \/ LoadComponents
    \/ RegisterComponents
    \/ ImportEvalModel
    \/ CreateEvalModel
    \/ CreateJob
    \/ ServiceRunJob
    \/ CreateSweepJob
    \/ ServiceRunTrial
    \/ ServiceFinishSweep
    \/ StreamAndGet
    \/ ModelCell
    \/ RegisterModel
    \/ EndpointCell
    \/ EndpointResult
    \/ EndpointResultRaises
    \/ GetEndpointPytorch
    \/ BlueDeploymentCell
    \/ BlueDeploymentResult
    \/ BlueDeploymentResultRaises
    \/ TestDeployment
    \/ GetWorkspace
    \/ BuildPipeline
    \/ SubmitPipeline
    \/ \E n \in DOMAIN stepState : ServiceStartStep(n)
    \/ \E n \in DOMAIN stepState : ServiceFinishStep(n)
    \/ StreamPipeline

Spec == Init /\ [][Next]_vars

(***************************************************************************)
(* Safe rollout: properties                                                *)
(***************************************************************************)
IsTrafficMap(m) == DOMAIN m # {}

\* The endpoint submissions that carry a traffic map (the first submission
\* creates the endpoint before any traffic is assigned).
SubmittedTrafficMaps == SelectSeq(submitted, IsTrafficMap)

ExpectedRollout ==
    << "blue" :> 100,
       ("blue" :> 90) @@ ("green" :> 10),
       ("blue" :> 0) @@ ("green" :> 100) >>

\* C1: in a top-to-bottom run of the safe-rollout notebook the traffic maps
\* submitted are exactly {blue: 100}, {blue: 90, green: 10},
\* {blue: 0, green: 100}, in this order with nothing in between; green has no
\* share before the 90/10 map and its share never decreases afterwards.
C1_TrafficOrder ==
    notebook = "safe_rollout" =>
        LET maps == SubmittedTrafficMaps IN
        /\ Len(maps) <= Len(ExpectedRollout)
        /\ \A i \in 1..Len(maps) : maps[i] = ExpectedRollout[i]
        /\ pc = "done" => Len(maps) = Len(ExpectedRollout)
        /\ \A i \in 1..Len(maps) :
              (\A j \in 1..i : maps[j] # ExpectedRollout[2])
                  => Share(maps[i], "green") = 0
        /\ \A i, j \in 1..Len(maps) :
              i <= j => Share(maps[i], "green") <= Share(maps[j], "green")

C1_Witness ==
    /\ notebook = "safe_rollout" /\ pc = "done"
    /\ Len(SubmittedTrafficMaps) = 3
    /\ Share(SubmittedTrafficMaps[3], "green") = 100

\* The cells between the first traffic assignment and the request to delete
\* the endpoint.
InRolloutWindow ==
    /\ notebook = "safe_rollout"
    /\ pc \in {"scale_blue", "get_endpoint", "create_green", "traffic_90_10",
               "traffic_0_100", "delete_blue", "delete_endpoint"}

\* C2: from the first traffic assignment until deletion of the endpoint is
\* requested, every deployment with a non-zero share of the traffic in effect
\* has finished provisioning and has not been deleted.
C2_TrafficOnlyToServingDeployments ==
    InRolloutWindow =>
        \A d \in Deployments :
            Share(trafficInEffect, d) > 0 => deployments[d].state = "Succeeded"

\* C3: when the delete request for blue is issued, the traffic split in
\* effect is {blue: 0, green: 100}: blue is unused.
C3_BlueUnusedWhenDeleted ==
    [][DeleteBlue => /\ trafficInEffect = ExpectedRollout[3]
                     /\ Share(trafficInEffect, "blue") = 0]_vars

(***************************************************************************)
(* Compute clusters: properties                                            *)
(***************************************************************************)
RequestsFor(requests, name) ==
    { i \in 1..Len(requests) : requests[i].name = name }

\* C4: in every get-or-create compute cell a create/update request for a
\* cluster name is sent if and only if compute.get for that name raised; when
\* the get succeeds, no write request is sent and the cluster's record is
\* left as it was.  No other step sends a write request.
C4_WriteIffGetRaised ==
    [][ /\ \A n \in ClusterNames :
              (getOutcome[n] = "none" /\ getOutcome'[n] # "none") =>
                  /\ (getOutcome'[n] = "raised")
                        <=> (RequestsFor(computeRequests', n)
                                # RequestsFor(computeRequests, n))
                  /\ getOutcome'[n] = "ok" =>
                        /\ computeRequests' = computeRequests
                        /\ computes'[n] = computes[n]
        /\ computeRequests' # computeRequests =>
              \E n \in ClusterNames :
                  /\ getOutcome[n] = "none" /\ getOutcome'[n] = "raised"
                  /\ Len(computeRequests') = Len(computeRequests) + 1
                  /\ computeRequests'[Len(computeRequests')].name = n
      ]_vars

C4_Witness ==
    /\ notebook = "configuration" /\ pc = "done"
    /\ getOutcome["cpu-cluster"] = "ok"
    /\ getOutcome["gpu-cluster"] = "raised"
    /\ Len(computeRequests) = 1

\* C5: after the two compute cells of configuration.ipynb have run, clusters
\* named cpu-cluster and gpu-cluster exist in the workspace, whether or not
\* they existed before.
C5_BothClustersExist ==
    (notebook = "configuration" /\ pc = "done") =>
        /\ computes["cpu-cluster"].state # "Absent"
        /\ computes["gpu-cluster"].state # "Absent"

C5_Witness ==
    /\ notebook = "configuration" /\ pc = "done"
    /\ Len(computeRequests) = 2
    /\ computes["gpu-cluster"].state = "Creating"

(***************************************************************************)
(* Registered components: properties                                       *)
(***************************************************************************)
\* The variable, before and after its get-or-create, and the workspace after.
HoldsRegistered(before, after, reg) ==
    /\ after.registered
    /\ after.name = before.name
    /\ after.version = before.version
    /\ [name |-> after.name, version |-> after.version] \in reg

\* C6: after each get-or-create cell of pipeline_with_registered_components
\* the variables train_model, score_data and eval_model hold a component
\* registered in the workspace with the name and version of the local
\* definition, and create_or_update is called for a component only when get
\* for that name and version raised.
C6_ComponentsGetOrCreate ==
    [][ /\ (pc = "register_components" /\ pc' # pc) =>
              /\ HoldsRegistered(train_model, train_model', registry')
              /\ HoldsRegistered(score_data, score_data', registry')
        /\ (pc = "create_eval_model" /\ pc' # pc) =>
              HoldsRegistered(eval_model, eval_model', registry')
        /\ SeqRange(componentCreates') \subseteq componentGetRaised'
      ]_vars

C6_Witness ==
    /\ notebook = "registered_components" /\ pc = "done"
    /\ eval_model.registered /\ eval_model.version = "0.0.9"
    /\ [name |-> "eval_model", version |-> "0.0.8"] \in registry
    /\ Len(componentCreates) = 1
    /\ train_model.registered /\ score_data.registered

(***************************************************************************)
(* Credential and workspace handle: properties                             *)
(***************************************************************************)
\* C7: no exception raised by DefaultAzureCredential() or by get_token
\* escapes the credential cell; when both succeed credential is the
\* DefaultAzureCredential, when either raises it is an
\* InteractiveBrowserCredential.
C7_CredentialFallback ==
    (notebook \in {"configuration", "registered_components", "nyc_taxi"}
        /\ pc # "credential") =>
        /\ failedCell # "credential"
        /\ credentialRaised = "none" => credential = "DefaultAzureCredential"
        /\ credentialRaised # "none" => credential = "InteractiveBrowserCredential"

C7_Witness ==
    /\ notebook = "nyc_taxi" /\ pc = "done"
    /\ credentialRaised = "ClientAuthenticationError"
    /\ credential = "InteractiveBrowserCredential"

\* C8: when MLClient.from_config raises in configuration.ipynb, the fallback
\* writes ../.azureml/config.json if and only if subscription_id does not
\* start with "<"; in the placeholder case the exception is re-raised, no
\* file or directory is created, ml_client stays unbound and print(ml_client)
\* is not reached.
C8_FromConfigFallback ==
    (notebook = "configuration" /\ fromConfigRaised) =>
        LET placeholder == subscription_id # << >> /\ Head(subscription_id) = "<"
            wrote == \E i \in 1..Len(fsLog) :
                        /\ fsLog[i].op = "write"
                        /\ fsLog[i].path = "../.azureml/config.json"
        IN /\ wrote <=> ~placeholder
           /\ placeholder =>
                 /\ pc = "error" /\ failedCell = "from_config"
                 /\ fsLog = << >>
                 /\ ml_client = "unbound"
                 /\ "ml_client" \notin SeqRange(stdout)

C8_Witness ==
    /\ notebook = "configuration" /\ fromConfigRaised
    /\ subscription_id = <<"<">>
    /\ pc = "error" /\ fsLog = << >>

(***************************************************************************)
(* Command jobs and sweeps: properties                                     *)
(***************************************************************************)
FlagOf(name) ==
    CASE name = "kernel" -> "--kernel"
      [] name = "penalty" -> "--penalty"
      [] name = "num_epochs" -> "--num_epochs"
      [] name = "learning_rate" -> "--learning_rate"
      [] name = "momentum" -> "--momentum"
      [] name = "output_dir" -> "--output_dir"

PassedAs(argv, name, value) ==
    \E i \in 1..(Len(argv) - 1) : argv[i] = FlagOf(name) /\ argv[i + 1] = value

\* C9: every input declared for a command job is passed to the training
\* script on its command line, so every hyperparameter a sweep samples
\* reaches the script with the value sampled for that trial.
C9_InputsReachScript ==
    notebook \in {"sklearn", "pytorch"} =>
        /\ \A r \in 1..Len(commandRuns) :
              \A n \in DOMAIN Job(notebook).inputs :
                  PassedAs(commandRuns[r], n, Job(notebook).inputs[n])
        /\ \A t \in 1..Len(trials) :
              \A n \in DOMAIN trials[t].sampled :
                  PassedAs(trials[t].argv, n, trials[t].sampled[n])

IsWaitMessage(line) ==
    line \in {"Sweep job status: Failed. Please wait until it completes",
              "Sweep job status: Canceled. Please wait until it completes",
              "Sweep job status: Completed. Please wait until it completes"}

\* C10: the model cell builds a Model from the sweep's best_child_run_id if
\* and only if the status fetched by jobs.get after jobs.stream returned is
\* "Completed"; for any other status it reads no best-run property, builds no
\* Model and only prints the wait message.
C10_ModelIffCompleted ==
    (notebook \in {"sklearn", "pytorch"}
        /\ pc \in {"register_model", "done", "error"}) =>
        LET status == returned_sweep_job.status
            waits == SelectSeq(stdout, IsWaitMessage)
        IN /\ model.bound <=> status = "Completed"
           /\ status = "Completed" =>
                 /\ best_run = bestChild /\ best_run > 0
                 /\ model.job = bestChild
                 /\ waits = << >>
           /\ status # "Completed" =>
                 /\ best_run = 0
                 /\ model = [bound |-> FALSE, job |-> 0, folder |-> ""]
                 /\ Len(waits) = 1
                 /\ status = "Failed" =>
                       waits[1] = "Sweep job status: Failed. Please wait until it completes"
                 /\ status = "Canceled" =>
                       waits[1] = "Sweep job status: Canceled. Please wait until it completes"

C10_Witness ==
    /\ notebook = "pytorch" /\ pc = "done"
    /\ returned_sweep_job.status = "Completed"
    /\ model.bound /\ model.job = 2 /\ model.folder = "outputs"

C10_WitnessNotCompleted ==
    /\ notebook = "sklearn" /\ pc = "error"
    /\ returned_sweep_job.status = "Canceled"
    /\ ~model.bound

(***************************************************************************)
(* Sweep limits and pipelines: properties                                  *)
(***************************************************************************)
\* C11: no sweep requests more concurrent trials than the cluster it runs on
\* can have nodes: every sweep submitted names cpu-cluster or gpu-cluster as
\* its compute and has max_concurrent_trials at most 4, the max_instances
\* with which the notebooks create these clusters.
C11_ConcurrencyWithinCluster ==
    \A i \in 1..Len(sweepRequests) :
        /\ sweepRequests[i].compute \in {"cpu-cluster", "gpu-cluster"}
        /\ sweepRequests[i].max_concurrent_trials <= 4

ExpectedSteps ==
    << "prepare_sample_data", "transform_sample_data", "train_with_sample_data",
       "predict_with_sample_data", "score_with_sample_data" >>

\* C15: the nyc_taxi_data_regression pipeline has exactly five steps, prep,
\* transform, train, predict, score; each consumes an output of the step
\* before it, score also consumes the trained model, and no step has started
\* unless every earlier step has completed.
C15_FiveStepsInOrder ==
    (notebook = "nyc_taxi" /\ Len(pipeline_job) > 0) =>
        /\ Len(pipeline_job) = 5
        /\ \A i \in 1..5 : pipeline_job[i].name = ExpectedSteps[i]
        /\ \A i \in 2..5 :
              \E b \in pipeline_job[i].inputs : b.from = ExpectedSteps[i - 1]
        /\ \E b \in pipeline_job[5].inputs :
              b.input = "model" /\ b.from = "train_with_sample_data"
        /\ DOMAIN stepState # {} =>
              /\ DOMAIN stepState = { ExpectedSteps[i] : i \in 1..5 }
              /\ \A i, j \in 1..5 :
                    (i < j /\ stepState[ExpectedSteps[j]] # "NotStarted")
                        => stepState[ExpectedSteps[i]] = "Completed"

C15_Witness ==
    /\ notebook = "nyc_taxi" /\ pc = "done"
    /\ DOMAIN stepState # {}
    /\ \A n \in DOMAIN stepState : stepState[n] = "Completed"

\* C12: the primary metric named by the scikit-learn sweep, "Accuracy", is
\* logged by train_iris.py under exactly that name on every execution of
\* main that reaches mlflow.end_run.
C12_AccuracyLogged ==
    notebook = "sklearn" =>
        /\ \A i \in 1..Len(sweepRequests) :
              sweepRequests[i].primary_metric = "Accuracy"
        /\ \A r \in 1..Len(mainRuns) :
              mainRuns[r].run.ended => "Accuracy" \in mainRuns[r].run.metrics

C12_Witness ==
    /\ notebook = "sklearn"
    /\ Len(sweepRequests) = 1
    /\ Len(mainRuns) = 1
    /\ mainRuns[1].run.ended
    /\ mainRuns[1].run.metrics = {"Penalty", "Accuracy"}

(***************************************************************************)
(* PyTorch endpoint: properties                                            *)
(***************************************************************************)
\* C13: in the PyTorch notebook the creation of the endpoint has completed
\* when the aci-blue deployment is requested, and that deployment has
\* completed when online_endpoints.invoke is called.
C13_DeployAfterEndpointInvokeAfterDeploy ==
    [][ notebook = "pytorch" =>
          /\ (deployments["aci-blue"].state = "Absent"
                /\ deployments'["aci-blue"].state # "Absent")
                => (endpointState = "Succeeded" /\ endpointOps = << >>)
          /\ (pc = "test_deployment" /\ pc' # pc)
                => deployments["aci-blue"].state = "Succeeded"
      ]_vars

C13_Witness ==
    /\ notebook = "pytorch" /\ pc = "delete_endpoint"
    /\ result = "prediction"
    /\ endpointState = "Succeeded"
    /\ deployments["aci-blue"].state = "Succeeded"

\* C14: once the blue_deployment cell of the PyTorch notebook has completed,
\* the deployment aci-blue handles 100% of the endpoint's incoming traffic.
C14_AciBlueTakesAllTraffic ==
    (notebook = "pytorch" /\ pc \in {"test_deployment", "delete_endpoint"}) =>
        Share(trafficInEffect, "aci-blue") = 100

(***************************************************************************)
(* Traffic maps of every notebook: properties                              *)
(***************************************************************************)
TrafficSum(m) == Share(m, "blue") + Share(m, "green") + Share(m, "aci-blue")

\* C16: every traffic map a notebook submits for an endpoint has percentages
\* that sum to exactly 100 and names only deployments whose creation was
\* requested earlier in the same run and whose deletion has not been
\* requested.
C16_TrafficMapsWellFormed ==
    [][ (Len(submitted') = Len(submitted) + 1
            /\ DOMAIN submitted'[Len(submitted')] # {}) =>
          LET m == submitted'[Len(submitted')] IN
          /\ TrafficSum(m) = 100
          /\ \A d \in DOMAIN m :
                deployments[d].state \in {"Creating", "Succeeded"}
      ]_vars

C16_Witness ==
    /\ notebook = "simple_deployment" /\ pc = "done"
    /\ Len(submitted) = 2
    /\ submitted[2] = ("blue" :> 100)
    /\ deployments["blue"].state = "Succeeded"

=============================================================================
